---- MODULE Spec2Model ----
(***************************************************************************)
(* State-machine model of the useNotifications hook                        *)
(* (src/hooks/useNotifications.ts): the notification list, the loading and *)
(* error flags, the gateway calls in flight, the identity effect with its  *)
(* auth listener and realtime subscription, the realtime handler, what the *)
(* Supabase client holds open for the hook, and the read flags of the      *)
(* database the gateway and the realtime feed report.                      *)
(***************************************************************************)
EXTENDS Integers, Sequences, FiniteSets, Bags, TLC

\* ------------------------------------------------------------------ bounds
MaxItems == 3
MaxIdsLen == 1
MaxInflight == 1
MaxFewItems == 1
MaxOverlap == 2
MaxFeedItems == 2

\* ------------------------------------------------------------------ values
NoUser == "null"
Users == {"u1", "u2"}
Ids == {"n1", "n2", "n3"}

\* the message of a row is fixed when the row is created
MessageOf(id) == "message of " \o id

\* interface Notification; type, eventId, createdAt and updatedAt are never
\* read by the hook and are left out of the record.
Notification ==
    {[id |-> i, userId |-> u, read |-> r, message |-> MessageOf(i)] :
        i \in Ids, u \in Users, r \in BOOLEAN}

NoRow == [id |-> "", userId |-> NoUser, read |-> FALSE, message |-> ""]

\* useState<string | null>(null)
NoError == "<null>"

\* JavaScript undefined and truthiness of a string-or-undefined value
Undefined == "<undefined>"
Truthy(v) == v # Undefined /\ v # ""

\* a || b || c
Or3(a, b, c) == IF Truthy(a) THEN a ELSE IF Truthy(b) THEN b ELSE c

\* a thrown or rejected value: an Error with a message, or some other value
ErrorOf(msg) == [isError |-> TRUE, message |-> msg]
NotAnError == [isError |-> FALSE, message |-> Undefined]

\* messages the JavaScript engine gives to the errors it raises itself
FetchFailedMsg == "Failed to fetch"
\* response.json() on a body that is no JSON, as V8 words it for a short body:
\* the empty body ends too early, any other is quoted after its first character
SyntaxErrorMsg(text) ==
    IF text = "" THEN "Unexpected end of JSON input"
    ELSE "Unexpected token '" \o SubSeq(text, 1, 1) \o "', \"" \o text
            \o "\" is not valid JSON"
\* the read of property prop of a body that is null
NullPropertyMsg(prop) == "Cannot read properties of null (reading '" \o prop \o "')"
NotAFunctionMsg == "data.map is not a function"

\* string literals of the source
UnknownErrorMsg == "Erreur inconnue"
NonJsonMsg == "Erreur serveur: réponse non-JSON"
LoadFallbackMsg == "Erreur lors de la récupération des notifications"
MarkFallbackMsg == "Erreur lors du marquage des notifications"
MarkCatchMsg == "Impossible de marquer les notifications comme lues"
DeleteFallbackMsg == "Erreur lors de la suppression des notifications"
DeleteCatchMsg == "Impossible de supprimer les notifications"

\* ------------------------------------------------------------- sequences
\* Array.prototype.includes
Includes(arr, x) == \E i \in 1..Len(arr) : arr[i] = x

\* the set of ids an ids array names
IdSet(ids) == {ids[k] : k \in 1..Len(ids)}

\* all sequences over S of length at most n
SeqsUpTo(S, n) == UNION {[1..k -> S] : k \in 0..n}

UniqueIds(arr) == \A i, j \in 1..Len(arr) : arr[i].id = arr[j].id => i = j

\* ------------------------------------------------- gateway responses
\* A parsed JSON body: an object with optional error/details, an array of
\* rows, or null.
JsonObject(e, d) == [t |-> "object", error |-> e, details |-> d, data |-> <<>>]
JsonArray(rows) == [t |-> "array", error |-> Undefined, details |-> Undefined, data |-> rows]
JsonNull == [t |-> "null", error |-> Undefined, details |-> Undefined, data |-> <<>>]

\* response.headers.get("content-type"): null when the header is absent
NoHeader == "<null>"
ContentTypes == {NoHeader, "text/html", "application/json; charset=utf-8"}

\* contentType && contentType.includes("application/json")
IsJsonContentType(ct) == ct \in {"application/json", "application/json; charset=utf-8"}

\* what the fetch promise settles to: a rejection with a reason, or a
\* Response with ok, a content type and a body (its raw text, and its JSON
\* value when the text parses)
Rejection(reason) ==
    [rejected |-> TRUE, reason |-> reason, ok |-> FALSE, contentType |-> NoHeader,
     parses |-> FALSE, value |-> JsonNull, text |-> ""]
JsonResponse(ok, ct, value) ==
    [rejected |-> FALSE, reason |-> NotAnError, ok |-> ok, contentType |-> ct,
     parses |-> TRUE, value |-> value, text |-> "{json}"]
TextResponse(ok, ct, text) ==
    [rejected |-> FALSE, reason |-> NotAnError, ok |-> ok, contentType |-> ct,
     parses |-> FALSE, value |-> JsonNull, text |-> text]

Rejections == {Rejection(ErrorOf(FetchFailedMsg)), Rejection(NotAnError)}

ErrorBodies ==
    {JsonObject(e, d) : e \in {Undefined, "", "E"}, d \in {Undefined, "", "D"}}
        \cup {JsonNull, JsonArray(<<>>)}

\* non-2xx answers
ErrorResponses ==
    {JsonResponse(FALSE, ct, b) : ct \in ContentTypes, b \in ErrorBodies}
        \cup {TextResponse(FALSE, ct, t) : ct \in ContentTypes, t \in {"", "<html>"}}

\* 2xx answers of the list endpoint that carry no array
BadListResponses ==
    {JsonResponse(TRUE, "application/json", JsonNull),
     JsonResponse(TRUE, "application/json", JsonObject("E", Undefined)),
     TextResponse(TRUE, "text/html", "<html>")}

\* every way a gateway call can fail, and one of them
AllFailures == Rejections \cup ErrorResponses
OneFailure == {Rejection(ErrorOf(FetchFailedMsg))}

\* 2xx answers to PATCH and DELETE: the body is never read
AckResponses ==
    {JsonResponse(TRUE, "application/json", JsonObject(Undefined, Undefined)),
     TextResponse(TRUE, NoHeader, "")}

\* the outcome of a try block: a value returned or an error thrown
Returned(v) == [threw |-> FALSE, err |-> NotAnError, data |-> v]
Threw(e) == [threw |-> TRUE, err |-> e, data |-> <<>>]

\* ---------------------------------------------------------------- scopes
\* What the environment of the hook can do in one specification: who can be
\* signed in, which rows exist, which ids arrays the UI passes, how the
\* gateway can fail, and how many calls can be in flight at once.
Scope(users, ids, maxItems, idLists, failures, maxInflight) ==
    [users |-> users, ids |-> ids, maxItems |-> maxItems, idLists |-> idLists,
     failures |-> failures, maxInflight |-> maxInflight]

\* the rows of user u
RowsOf(U, u) == {n \in Notification : n.userId = u /\ n.id \in U.ids}

\* the answers of the list endpoint to user u: its own rows, unique by id
ListResponses(U, u) ==
    {JsonResponse(TRUE, "application/json", JsonArray(rows)) :
        rows \in {l \in SeqsUpTo(RowsOf(U, u), U.maxItems) : UniqueIds(l)}}

\* ------------------------------------------------------------------ state
VARIABLES
    notifications,          \* useState<Notification[]>([])
    loading,                \* useState(true)
    error,                  \* useState<string | null>(null)
    user,                   \* useAuth().user of the latest render
    pending,                \* bag of gateway calls awaiting their fetch or its body
    effectUser,             \* the user captured by the effect that last ran
    authListener,           \* TRUE while the auth listener is registered
    realtimeSubscription,   \* user the open channel filters on, or NoUser
    last,                   \* what the latest step did: calls made, notices raised
    handles,                \* what the Supabase client holds open for the hook
    mounted,                \* FALSE once the component is unmounted
    store                   \* ids of the rows whose read is true in the database

vars == <<notifications, loading, error, user, pending, effectUser, authListener,
          realtimeSubscription, last, handles, mounted, store>>

\* no response: the step settled no gateway call
NoResponse ==
    [rejected |-> FALSE, reason |-> NotAnError, ok |-> FALSE, contentType |-> NoHeader,
     parses |-> FALSE, value |-> JsonNull, text |-> "<no response>"]

\* a gateway call, issued for user u while the database held the rows of
\* store as read; resp is NoResponse while its fetch is awaited, and the
\* response the fetch settled with while the body of that response is awaited
Request(op, u, ids) ==
    [op |-> op, user |-> u, ids |-> ids, seen |-> store, resp |-> NoResponse]

\* a step that is no gateway call, run for user u
NoRequest(u) == Request("none", u, <<>>)

Toast(level, msg) == [level |-> level, message |-> msg]

\* The record of a step: the operation and its inputs (the call it issues or
\* settles, ids array, realtime row, settled response), the notices it
\* raised, the gateway calls and the channels it opened, whether an error
\* left it uncaught, what it did to the list, and whether it delivers again
\* the realtime event of the step before it.
Step(op, outcome, req, ids, row, resp, toasts, fetches, subscribes, escaped) ==
    [op |-> op, outcome |-> outcome, req |-> req, ids |-> ids, row |-> row,
     resp |-> resp, toasts |-> toasts, fetches |-> fetches, subscribes |-> subscribes,
     escaped |-> escaped, lenBefore |-> Len(notifications),
     changed |-> notifications' # notifications,
     again |-> /\ row # NoRow
               /\ last.op = op
               /\ last.outcome = outcome
               /\ last.row = row]

\* nothing held open at the Supabase client: the channels by the user they
\* filter on, the number of auth callbacks, and whether something was
\* released that was not held
NoHandles == [channels |-> EmptyBag, listeners |-> 0, misreleased |-> FALSE]

InFlight == BagCardinality(pending)

\* the call still awaits its fetch
Fetching(r) == r.resp = NoResponse

\* whether the handler of op awaits the body of resp before it goes on: a
\* load reads the body of every response (lines 52, 58, 71), a mutation the
\* body of a non-2xx response only (lines 110, 152); a rejected fetch has none
ReadsBody(op, resp) == ~resp.rejected /\ (op = "load" \/ ~resp.ok)

\* how the fetch of call r can settle
Answers(U, r) ==
    IF r.op = "load"
    THEN U.failures \cup BadListResponses \cup ListResponses(U, r.user)
    ELSE U.failures \cup AckResponses

\* the responses the last task of call r can run on: the one whose body it
\* awaited, or, straight from the fetch, one whose body it does not read
Resumed(U, r) ==
    IF Fetching(r) THEN {resp \in Answers(U, r) : ~ReadsBody(r.op, resp)} ELSE {r.resp}

\* The fetch of call r settles with a response whose body the handler reads:
\* the task runs up to that await and sets no state.
FetchSettled(U, op) ==
    \E r \in BagToSet(pending) :
        /\ r.op = op
        /\ Fetching(r)
        /\ \E resp \in Answers(U, r) :
            /\ ReadsBody(op, resp)
            /\ pending' = (pending (-) SetToBag({r})) (+) SetToBag({[r EXCEPT !.resp = resp]})
            /\ UNCHANGED <<notifications, loading, error, user, effectUser, authListener,
                           realtimeSubscription, handles, mounted, store>>
            /\ last' = Step(op \o "Fetch", "settled", r, r.ids, NoRow, resp, <<>>, 0, 0,
                            FALSE)

\* a state setter called with next while the state is prev: React drops the
\* update of a component that has unmounted
SetState(prev, next) == IF mounted THEN next ELSE prev

\* the hook right after its first render, before its effect has run
InitFor(U) ==
    /\ notifications = <<>>
    /\ loading = TRUE
    /\ error = NoError
    /\ user \in U.users
    /\ pending = EmptyBag
    /\ effectUser = NoUser
    /\ authListener = FALSE
    /\ realtimeSubscription = NoUser
    /\ handles = NoHandles
    /\ mounted = TRUE
    /\ store = {}
    /\ last = [op |-> "init", outcome |-> "none", req |-> [NoRequest(NoUser) EXCEPT !.seen = {}],
               ids |-> <<>>, row |-> NoRow,
               resp |-> NoResponse, toasts |-> <<>>, fetches |-> 0, subscribes |-> 0,
               escaped |-> FALSE, lenBefore |-> 0, changed |-> FALSE, again |-> FALSE]

\* ------------------------------------------------------ loadNotifications
\* a try block whose non-JSON branch throws the generic message followed by
\* the raw text
LoadTryPrefixing(resp) ==
    IF resp.rejected THEN Threw(resp.reason)
    ELSE IF ~resp.ok THEN
        IF IsJsonContentType(resp.contentType) THEN
            IF ~resp.parses THEN
                Threw(ErrorOf(Or3(Undefined, UnknownErrorMsg, LoadFallbackMsg)))
            ELSE IF resp.value.t = "null" THEN Threw(ErrorOf(NullPropertyMsg("details")))
            ELSE Threw(ErrorOf(Or3(resp.value.details, resp.value.error, LoadFallbackMsg)))
        ELSE Threw(ErrorOf(NonJsonMsg \o ": " \o resp.text))
    ELSE IF ~resp.parses THEN Threw(ErrorOf(SyntaxErrorMsg(resp.text)))
    ELSE IF resp.value.t = "null" THEN Threw(ErrorOf(NullPropertyMsg("length")))
    ELSE IF resp.value.t # "array" THEN Threw(ErrorOf(NotAFunctionMsg))
    ELSE Returned(resp.value.data)

\* lines 41-82, the try block after the fetch settles
LoadTry(resp) ==
    IF resp.rejected THEN Threw(resp.reason)
    ELSE IF ~resp.ok THEN
        IF IsJsonContentType(resp.contentType) THEN
            IF ~resp.parses THEN
                \* response.json() fails: errorData keeps its initial value
                Threw(ErrorOf(Or3(Undefined, UnknownErrorMsg, LoadFallbackMsg)))
            ELSE IF resp.value.t = "null" THEN Threw(ErrorOf(NullPropertyMsg("details")))
            ELSE Threw(ErrorOf(Or3(resp.value.details, resp.value.error, LoadFallbackMsg)))
        ELSE Threw(ErrorOf(Or3(resp.text, NonJsonMsg, LoadFallbackMsg)))
    ELSE IF ~resp.parses THEN Threw(ErrorOf(SyntaxErrorMsg(resp.text)))
    ELSE IF resp.value.t = "null" THEN Threw(ErrorOf(NullPropertyMsg("length")))
    ELSE IF resp.value.t # "array" THEN Threw(ErrorOf(NotAFunctionMsg))
    ELSE Returned(resp.value.data)

\* line 89
LoadCatchMessage(err) == IF err.isError THEN err.message ELSE LoadFallbackMsg

\* a load that empties the list when it fails
LoadSettledClearing(prev, outcome) == IF outcome.threw THEN <<>> ELSE outcome.data

\* a load that puts the rows it received in front of the rows it had
LoadSettledMerging(prev, outcome) ==
    IF outcome.threw THEN prev ELSE outcome.data \o prev

\* lines 82-91: what the settled fetch does to notifications and error
LoadSettledNotifications(prev, outcome) == IF outcome.threw THEN prev ELSE outcome.data

LoadSettledError(prev, outcome) ==
    IF outcome.threw THEN LoadCatchMessage(outcome.err) ELSE prev

\* line 91
LoadToasts(outcome) ==
    IF outcome.threw THEN <<Toast("error", LoadCatchMessage(outcome.err))>> ELSE <<>>

\* a load that clears loading at the end of the try block only
LoadFinallyInTry(outcome) == outcome.threw

\* lines 92-94, the finally block
LoadFinally(outcome) == FALSE

\* lines 83, 127 and 165: catch (err) takes whatever the try block throws and
\* throws nothing itself
Uncaught(outcome) == FALSE

\* a loadNotifications without the guard of lines 29-34
LoadNotificationsUnguarded(U, u) ==
    /\ InFlight < U.maxInflight
    /\ loading' = TRUE
    /\ error' = NoError
    /\ pending' = pending (+) SetToBag({Request("load", u, <<>>)})
    /\ UNCHANGED notifications

\* lines 28-40: the part of loadNotifications that runs before the fetch is
\* awaited, for the user u its closure captured
LoadNotifications(U, u) ==
    IF u = NoUser
    THEN /\ notifications' = <<>>
         /\ loading' = FALSE
         /\ UNCHANGED <<error, pending>>
    ELSE /\ InFlight < U.maxInflight
         /\ loading' = TRUE
         /\ error' = NoError
         /\ pending' = pending (+) SetToBag({Request("load", u, <<>>)})
         /\ UNCHANGED notifications

\* line 41: one fetch, when the guard of line 29 lets the call through
Fetches(u) == IF u = NoUser THEN 0 ELSE 1

Guard(u) == IF u = NoUser THEN "noUser" ELSE "sent"

\* the UI calls the loadNotifications of the latest render
CallLoad(U) ==
    /\ authListener
    /\ LoadNotifications(U, user)
    /\ last' = Step("loadNotifications", Guard(user), Request("load", user, <<>>), <<>>,
                    NoRow, NoResponse, <<>>, Fetches(user), 0, FALSE)
    /\ UNCHANGED <<user, effectUser, authListener, realtimeSubscription, handles,
                   mounted, store>>

\* a load whose answer is dropped when it was issued for a user who is no
\* longer the user of the latest render
LoadResponseForCurrentUser(U) ==
    \E r \in BagToSet(pending) :
        /\ r.op = "load"
        /\ \E resp \in Resumed(U, r) :
            LET outcome == LoadTry(resp)
                stale == r.user # user
            IN  /\ pending' = pending (-) SetToBag({r})
                /\ notifications' =
                      IF stale THEN notifications
                      ELSE SetState(notifications,
                                    LoadSettledNotifications(notifications, outcome))
                /\ error' =
                      IF stale THEN error
                      ELSE SetState(error, LoadSettledError(error, outcome))
                /\ loading' = IF stale THEN loading ELSE SetState(loading, LoadFinally(outcome))
                /\ last' = Step("loadResponse", IF outcome.threw THEN "caught" ELSE "done",
                                r, <<>>, NoRow, resp,
                                IF stale THEN <<>> ELSE LoadToasts(outcome), 0, 0,
                                Uncaught(outcome))
        /\ UNCHANGED <<user, effectUser, authListener, realtimeSubscription, handles,
                       mounted, store>>

\* lines 41-71: the fetch of a load in flight settles with a response, and
\* the call awaits its body (line 52, 58 or 71)
LoadFetchSettled(U) == FetchSettled(U, "load")

\* The last task of a load: lines 72-94 once the body of a 2xx response is
\* read, lines 53-69 and 83-94 once that of a non-2xx response is, and lines
\* 83-94 straight from line 41 when the fetch is rejected.
LoadResponse(U) ==
    \E r \in BagToSet(pending) :
        /\ r.op = "load"
        /\ \E resp \in Resumed(U, r) :
            LET outcome == LoadTry(resp)
            IN  /\ pending' = pending (-) SetToBag({r})
                /\ notifications' =
                      SetState(notifications, LoadSettledNotifications(notifications, outcome))
                /\ error' = SetState(error, LoadSettledError(error, outcome))
                /\ loading' = SetState(loading, LoadFinally(outcome))
                /\ last' = Step("loadResponse", IF outcome.threw THEN "caught" ELSE "done",
                                r, <<>>, NoRow, resp, LoadToasts(outcome), 0, 0,
                                Uncaught(outcome))
        /\ UNCHANGED <<user, effectUser, authListener, realtimeSubscription, handles,
                       mounted, store>>

\* --------------------------------------------- markAsRead, deleteNotifications
\* lines 105-118 and 146-160: the try block up to the state update
MutationTry(resp, fallback) ==
    IF resp.rejected THEN Threw(resp.reason)
    ELSE IF resp.ok THEN Returned(<<>>)
    ELSE IF ~resp.parses THEN Threw(ErrorOf(SyntaxErrorMsg(resp.text)))
    ELSE IF resp.value.t = "null" THEN Threw(ErrorOf(NullPropertyMsg("details")))
    ELSE Threw(ErrorOf(Or3(resp.value.details, resp.value.error, fallback)))

\* lines 133 and 171
MutationCatchMessage(err, catchMsg) == IF err.isError THEN err.message ELSE catchMsg

\* lines 134 and 172
MutationToasts(outcome, catchMsg) ==
    IF outcome.threw THEN <<Toast("error", MutationCatchMessage(outcome.err, catchMsg))>>
    ELSE <<>>

\* a markAsRead that ignores the ids and marks the whole list
MarkReadUpdateAll(prev, notificationIds) ==
    [i \in 1..Len(prev) |-> [prev[i] EXCEPT !.read = TRUE]]

\* a markAsRead that flips read on the rows it names
MarkReadUpdateToggling(prev, notificationIds) ==
    [i \in 1..Len(prev) |->
        IF Includes(notificationIds, prev[i].id)
        THEN [prev[i] EXCEPT !.read = ~prev[i].read]
        ELSE prev[i]]

\* lines 120-126
MarkReadUpdate(prev, notificationIds) ==
    [i \in 1..Len(prev) |->
        IF Includes(notificationIds, prev[i].id)
        THEN [prev[i] EXCEPT !.read = TRUE]
        ELSE prev[i]]

\* a delete that drops the named rows and hands the rest back newest-last
DeleteUpdateReversed(prev, notificationIds) ==
    LET kept == SelectSeq(prev, LAMBDA n : ~Includes(notificationIds, n.id))
    IN  [i \in 1..Len(kept) |-> kept[Len(kept) + 1 - i]]

\* lines 162-164
DeleteUpdate(prev, notificationIds) ==
    SelectSeq(prev, LAMBDA n : ~Includes(notificationIds, n.id))

\* a mutation that updates the list before it knows the gateway's answer
MutationSettledOptimistic(op, prev, outcome, notificationIds) ==
    IF op = "markAsRead" THEN MarkReadUpdate(prev, notificationIds)
    ELSE DeleteUpdate(prev, notificationIds)

\* lines 120 and 162 against 127 and 165: the update runs only when the try
\* block got through
MutationSettled(op, prev, outcome, notificationIds) ==
    IF outcome.threw THEN prev
    ELSE IF op = "markAsRead" THEN MarkReadUpdate(prev, notificationIds)
    ELSE DeleteUpdate(prev, notificationIds)

\* a mutation without the guard of lines 98-101 and 139-142
CallMutationUnguarded(U, op, ids) ==
    /\ authListener
    /\ InFlight < U.maxInflight
    /\ pending' = pending (+) SetToBag({Request(op, user, ids)})
    /\ UNCHANGED <<notifications, loading, error, user, effectUser, authListener,
                   realtimeSubscription, handles, mounted, store>>
    /\ last' = Step(op, "sent", Request(op, user, ids), ids, NoRow, NoResponse, <<>>, 1, 0,
                    FALSE)

\* lines 97-107 and 138-149: the guard and the fetch, for the latest render
CallMutation(U, op, ids) ==
    /\ authListener
    /\ IF user = NoUser
       THEN UNCHANGED pending
       ELSE /\ InFlight < U.maxInflight
            /\ pending' = pending (+) SetToBag({Request(op, user, ids)})
    /\ UNCHANGED <<notifications, loading, error, user, effectUser, authListener,
                   realtimeSubscription, handles, mounted, store>>
    /\ last' = Step(op, Guard(user), Request(op, user, ids), ids, NoRow, NoResponse, <<>>,
                    Fetches(user), 0, FALSE)

CallMarkAsRead(U) == \E ids \in U.idLists : CallMutation(U, "markAsRead", ids)

CallDeleteNotifications(U) ==
    \E ids \in U.idLists : CallMutation(U, "deleteNotifications", ids)

\* lines 105-110 (146-152): the fetch of a mutation in flight settles with a
\* non-2xx response, and the call awaits its body
MarkAsReadFetchSettled(U) == FetchSettled(U, "markAsRead")

DeleteNotificationsFetchSettled(U) == FetchSettled(U, "deleteNotifications")

\* The last task of a mutation: lines 105-135 (146-173) in one piece when the
\* fetch answers 2xx or is rejected, and from the await of line 110 (152) on
\* once the body of a non-2xx response is read.
MutationResponse(U, op, fallback, catchMsg) ==
    \E r \in BagToSet(pending) :
        /\ r.op = op
        /\ \E resp \in Resumed(U, r) :
            LET outcome == MutationTry(resp, fallback)
            IN  /\ pending' = pending (-) SetToBag({r})
                /\ notifications' =
                      SetState(notifications,
                               MutationSettled(op, notifications, outcome, r.ids))
                /\ last' = Step(op \o "Response",
                                IF outcome.threw THEN "caught" ELSE "done", r, r.ids, NoRow,
                                resp, MutationToasts(outcome, catchMsg), 0, 0,
                                Uncaught(outcome))
        /\ UNCHANGED <<loading, error, user, effectUser, authListener,
                       realtimeSubscription, handles, mounted, store>>

MarkAsReadResponse(U) == MutationResponse(U, "markAsRead", MarkFallbackMsg, MarkCatchMsg)

DeleteNotificationsResponse(U) ==
    MutationResponse(U, "deleteNotifications", DeleteFallbackMsg, DeleteCatchMsg)

\* ------------------------------------------------------------- the effect
\* AuthContext gives the hook another user: the component renders again
SetUser(U) ==
    \E u \in U.users \ {user} :
        /\ mounted
        /\ user' = u
        /\ UNCHANGED <<notifications, loading, error, pending, effectUser, authListener,
                       realtimeSubscription, handles, mounted, store>>
        /\ last' = Step("setUser", "none", NoRequest(u), <<>>, NoRow, NoResponse, <<>>, 0,
                        0, FALSE)

\* lines 196-244: a channel is opened only for a user
Subscription(u) == u

\* a cleanup that leaves the channel open
CleanupListenerOnly(h, listener, sub) ==
    IF listener /\ h.listeners > 0 THEN [h EXCEPT !.listeners = @ - 1] ELSE h

\* a cleanup that unsubscribes the channel twice
CleanupTwice(h, listener, sub) ==
    LET a == IF listener THEN [h EXCEPT !.listeners = @ - 1] ELSE h
        b == IF sub # NoUser THEN [a EXCEPT !.channels = @ (-) SetToBag({sub})] ELSE a
    IN  IF sub # NoUser THEN [b EXCEPT !.misreleased = TRUE] ELSE b

\* data.subscription.unsubscribe(), line 248
ListenerUnsubscribed(h) ==
    IF h.listeners > 0
    THEN [h EXCEPT !.listeners = @ - 1]
    ELSE [h EXCEPT !.misreleased = TRUE]

\* channel.unsubscribe(), line 250
ChannelUnsubscribed(h, sub) ==
    IF BagIn(sub, h.channels)
    THEN [h EXCEPT !.channels = @ (-) SetToBag({sub})]
    ELSE [h EXCEPT !.misreleased = TRUE]

\* lines 246-252: the cleanup releases the two handles its own effect holds
Cleanup(h, listener, sub) ==
    LET a == IF listener THEN ListenerUnsubscribed(h) ELSE h
    IN  IF sub # NoUser THEN ChannelUnsubscribed(a, sub) ELSE a

\* lines 181-244: the effect registers its auth callback and, for a user,
\* opens its channel
Setup(h, u) ==
    [h EXCEPT !.listeners = @ + 1,
              !.channels = IF Subscription(u) = NoUser THEN @
                           ELSE @ (+) SetToBag({Subscription(u)})]

\* lines 176-253: on mount and whenever user changed, the previous effect's
\* cleanup runs and then the effect body, with the user of the latest render
RunEffect(U) ==
    /\ mounted
    /\ ~authListener \/ effectUser # user
    /\ LoadNotifications(U, user)
    /\ effectUser' = user
    /\ authListener' = TRUE
    /\ realtimeSubscription' = Subscription(user)
    /\ handles' = Setup(Cleanup(handles, authListener, realtimeSubscription), user)
    /\ last' = Step("effect", Guard(user), Request("load", user, <<>>), <<>>, NoRow,
                    NoResponse, <<>>, Fetches(user),
                    IF Subscription(user) = NoUser THEN 0 ELSE 1, FALSE)
    /\ UNCHANGED <<user, mounted, store>>

\* lines 246-252: the component unmounts and the last effect's cleanup runs;
\* the calls in flight stay in flight and settle later
Unmount ==
    /\ mounted
    /\ authListener
    /\ mounted' = FALSE
    /\ handles' = Cleanup(handles, authListener, realtimeSubscription)
    /\ authListener' = FALSE
    /\ realtimeSubscription' = NoUser
    /\ UNCHANGED <<notifications, loading, error, user, pending, effectUser, store>>
    /\ last' = Step("unmount", "none", NoRequest(effectUser), <<>>, NoRow, NoResponse,
                    <<>>, 0, 0, FALSE)

AuthEvents == {"SIGNED_IN", "SIGNED_OUT", "TOKEN_REFRESHED"}

\* lines 181-191: the listener holds the loadNotifications of the render
\* whose effect registered it
AuthStateChange(U) ==
    \E event \in AuthEvents :
        /\ authListener
        /\ IF event = "SIGNED_IN" THEN LoadNotifications(U, effectUser)
           ELSE IF event = "SIGNED_OUT"
           THEN /\ notifications' = <<>>
                /\ UNCHANGED <<loading, error, pending>>
           ELSE UNCHANGED <<notifications, loading, error, pending>>
        /\ last' = Step("authStateChange", event, Request("load", effectUser, <<>>), <<>>,
                        NoRow, NoResponse, <<>>,
                        IF event = "SIGNED_IN" THEN Fetches(effectUser) ELSE 0, 0, FALSE)
        /\ UNCHANGED <<user, effectUser, authListener, realtimeSubscription, handles,
                       mounted, store>>

\* ------------------------------------------------------ realtime handler
\* an insert that puts the new row at the end of the list
InsertUpdateAppending(prev, newNotification) == prev \o <<newNotification>>

\* line 218
InsertUpdate(prev, newNotification) == <<newNotification>> \o prev

\* an update that inserts the row when the list does not hold its id
UpdateUpdateUpserting(prev, updatedNotification) ==
    IF \E i \in 1..Len(prev) : prev[i].id = updatedNotification.id
    THEN [i \in 1..Len(prev) |->
            IF prev[i].id = updatedNotification.id THEN updatedNotification ELSE prev[i]]
    ELSE <<updatedNotification>> \o prev

\* lines 227-231
UpdateUpdate(prev, updatedNotification) ==
    [i \in 1..Len(prev) |->
        IF prev[i].id = updatedNotification.id THEN updatedNotification ELSE prev[i]]

\* a delete that splices at the index of the row: findIndex gives -1 for an
\* id the list does not hold, and splice(-1, 1) removes the last item
DeleteEventUpdateSplicing(prev, deletedNotification) ==
    LET found == {i \in 1..Len(prev) : prev[i].id = deletedNotification.id}
        at == IF found = {} THEN Len(prev)
              ELSE CHOOSE i \in found : \A j \in found : i <= j
    IN  [i \in 1..(IF Len(prev) = 0 THEN 0 ELSE Len(prev) - 1) |->
            IF i < at THEN prev[i] ELSE prev[i + 1]]

\* lines 237-239
DeleteEventUpdate(prev, deletedNotification) ==
    SelectSeq(prev, LAMBDA n : n.id # deletedNotification.id)

\* lines 212-240: the branch on payload.eventType
RealtimeUpdate(prev, eventType, row) ==
    IF eventType = "INSERT" THEN InsertUpdate(prev, row)
    ELSE IF eventType = "UPDATE" THEN UpdateUpdate(prev, row)
    ELSE IF eventType = "DELETE" THEN DeleteEventUpdate(prev, row)
    ELSE prev

\* line 221
RealtimeToasts(eventType, row) ==
    IF eventType = "INSERT" THEN <<Toast("info", row.message)>> ELSE <<>>

EventTypes == {"INSERT", "UPDATE", "DELETE"}

\* lines 209-241: a channel that is open delivers a change of a row that
\* passes its filter userId=eq.<user.id>
RealtimePayload(U) ==
    \E eventType \in EventTypes :
        \E channel \in BagToSet(handles.channels) :
            \E row \in RowsOf(U, channel) :
                /\ eventType = "INSERT" => Len(notifications) < U.maxItems
                /\ notifications' = RealtimeUpdate(notifications, eventType, row)
                /\ last' = Step("realtime", eventType, NoRequest(channel), <<>>, row,
                                NoResponse, RealtimeToasts(eventType, row), 0, 0, FALSE)
                /\ UNCHANGED <<loading, error, user, pending, effectUser, authListener,
                               realtimeSubscription, handles, mounted, store>>

\* a count of every item, read or not
unreadCountOfAll == Len(notifications)

\* line 255
unreadCount == Len(SelectSeq(notifications, LAMBDA n : ~n.read))

\* ------------------------------------------------------- the database
\* the database sets read on a row, for this session's PATCH or for another
\* session's; it never sets it back
StoreMarksRead(U) ==
    \E id \in U.ids \ store :
        /\ store' = store \cup {id}
        /\ UNCHANGED <<notifications, loading, error, user, pending, effectUser,
                       authListener, realtimeSubscription, handles, mounted>>
        /\ last' = Step("storeMarksRead", "none", NoRequest(NoUser), <<id>>, NoRow,
                        NoResponse, <<>>, 0, 0, FALSE)

\* a list the database can answer to a call issued when it held the rows of
\* seen as read: a row it shows as read is read by now, and a row it shows as
\* unread was not yet read when the call was issued
SnapshotOf(rows, seen) ==
    \A i \in 1..Len(rows) :
        /\ rows[i].read => rows[i].id \in store
        /\ ~rows[i].read => rows[i].id \notin seen

\* an event the database can emit: rows are created unread, and the only
\* update is the one that sets read
EventOf(eventType, row) ==
    /\ eventType = "INSERT" => ~row.read
    /\ eventType = "UPDATE" => (row.read /\ row.id \in store)

\* ------------------------------------------------------------ specifications
\* One signed-in user reads and deletes notifications: up to MaxItems
\* rows, ids arrays of up to MaxIdsLen ids, one call in flight at a time, one
\* way for a call to fail.
SessionScope ==
    Scope({"u1"}, Ids, MaxItems, SeqsUpTo(Ids, MaxIdsLen), OneFailure, MaxInflight)

SessionNext ==
    \/ RunEffect(SessionScope)
    \/ LoadFetchSettled(SessionScope)
    \/ LoadResponse(SessionScope)
    \/ CallMarkAsRead(SessionScope)
    \/ MarkAsReadResponse(SessionScope)
    \/ CallDeleteNotifications(SessionScope)
    \/ DeleteNotificationsResponse(SessionScope)

SessionSpec == InitFor(SessionScope) /\ [][SessionNext]_vars

\* The same user with a single row, and every way for a mutation to fail;
\* loads are answered 2xx or rejected here, LoadFailSpec fails them in every way.
FailScope ==
    Scope({"u1"}, {"n1"}, MaxItems, {<<"n1">>}, AllFailures, MaxInflight)

FailNext ==
    \/ RunEffect(FailScope)
    \/ CallLoad(FailScope)
    \/ /\ LoadFetchSettled(FailScope)
       /\ last'.resp.ok
    \/ LoadResponse(FailScope)
    \/ CallMarkAsRead(FailScope)
    \/ MarkAsReadFetchSettled(FailScope)
    \/ MarkAsReadResponse(FailScope)
    \/ CallDeleteNotifications(FailScope)
    \/ DeleteNotificationsFetchSettled(FailScope)
    \/ DeleteNotificationsResponse(FailScope)

FailSpec == InitFor(FailScope) /\ [][FailNext]_vars

\* The hook for one user and one row, with loads only, when the gateway can
\* fail a load in every way.
LoadFailScope == Scope({"u1"}, {"n1"}, MaxItems, {<<>>}, AllFailures, MaxInflight)

LoadFailNext ==
    \/ RunEffect(LoadFailScope)
    \/ CallLoad(LoadFailScope)
    \/ LoadFetchSettled(LoadFailScope)
    \/ LoadResponse(LoadFailScope)

LoadFailSpec == InitFor(LoadFailScope) /\ [][LoadFailNext]_vars

\* the same, when every fetch settles and every body is read in the end
LoadLiveSpec ==
    /\ LoadFailSpec
    /\ WF_vars(LoadFetchSettled(LoadFailScope))
    /\ WF_vars(LoadResponse(LoadFailScope))

\* One signed-in user and the realtime channel: up to MaxItems rows over two
\* ids, so that the feed can repeat an id.
RealtimeScope ==
    Scope({"u1"}, {"n1", "n2"}, MaxItems, {<<>>}, OneFailure, MaxInflight)

RealtimeNext ==
    \/ RunEffect(RealtimeScope)
    \/ LoadFetchSettled(RealtimeScope)
    \/ LoadResponse(RealtimeScope)
    \/ RealtimePayload(RealtimeScope)

RealtimeSpec == InitFor(RealtimeScope) /\ [][RealtimeNext]_vars

\* One signed-in user whose list is changed from every side: loads, reads,
\* deletions, and the realtime channel, over two ids.
FeedScope ==
    Scope({"u1"}, {"n1", "n2"}, MaxFeedItems, {<<"n1">>, <<"n1", "n2">>}, OneFailure,
          MaxInflight)

FeedNext ==
    \/ RunEffect(FeedScope)
    \/ LoadFetchSettled(FeedScope)
    \/ LoadResponse(FeedScope)
    \/ CallMarkAsRead(FeedScope)
    \/ MarkAsReadResponse(FeedScope)
    \/ CallDeleteNotifications(FeedScope)
    \/ DeleteNotificationsResponse(FeedScope)
    \/ RealtimePayload(FeedScope)

FeedSpec == InitFor(FeedScope) /\ [][FeedNext]_vars

\* Users sign in and out while up to MaxOverlap loads are in flight, over a
\* single row per user.
LoadScope == Scope(Users \cup {NoUser}, {"n1"}, MaxItems, {<<>>}, OneFailure, MaxOverlap)

LoadNext ==
    \/ RunEffect(LoadScope)
    \/ SetUser(LoadScope)
    \/ AuthStateChange(LoadScope)
    \/ CallLoad(LoadScope)
    \/ LoadFetchSettled(LoadScope)
    \/ LoadResponse(LoadScope)

LoadSpec == InitFor(LoadScope) /\ [][LoadNext]_vars

\* Users sign in and out and the component unmounts while the realtime
\* channel delivers events, over a single row per user.
EffectScope ==
    Scope(Users \cup {NoUser}, {"n1"}, MaxFewItems, {<<>>}, OneFailure, MaxInflight)

EffectNext ==
    \/ RunEffect(EffectScope)
    \/ SetUser(EffectScope)
    \/ Unmount
    \/ AuthStateChange(EffectScope)
    \/ LoadFetchSettled(EffectScope)
    \/ LoadResponse(EffectScope)
    \/ RealtimePayload(EffectScope)

EffectSpec == InitFor(EffectScope) /\ [][EffectNext]_vars

\* One signed-in user and a database that only ever sets read: every list
\* it answers is a snapshot taken between the call and the answer, every
\* event is one it emitted, and a PATCH is acknowledged once its rows are
\* read. Up to MaxOverlap calls are in flight, over a single row.
StoreScope ==
    Scope({"u1"}, {"n1"}, MaxFewItems, {<<"n1">>}, OneFailure, MaxOverlap)

StoreNext ==
    \/ RunEffect(StoreScope)
    \/ CallLoad(StoreScope)
    \/ /\ LoadFetchSettled(StoreScope)
       /\ SnapshotOf(last'.resp.value.data, last'.req.seen)
    \/ LoadResponse(StoreScope)
    \/ CallMarkAsRead(StoreScope)
    \/ /\ MarkAsReadResponse(StoreScope)
       /\ last'.resp.ok => IdSet(last'.ids) \subseteq store
    \/ /\ RealtimePayload(StoreScope)
       /\ EventOf(last'.outcome, last'.row)
    \/ StoreMarksRead(StoreScope)

StoreSpec == InitFor(StoreScope) /\ [][StoreNext]_vars

\* Every operation of the hook, with one user signing in and out, over a
\* single row and up to MaxFewItems rows in the list.
Universe ==
    Scope({"u1", NoUser}, {"n1"}, MaxFewItems, SeqsUpTo({"n1"}, MaxIdsLen),
          OneFailure, MaxInflight)

Next ==
    \/ RunEffect(Universe)
    \/ SetUser(Universe)
    \/ AuthStateChange(Universe)
    \/ CallLoad(Universe)
    \/ LoadFetchSettled(Universe)
    \/ LoadResponse(Universe)
    \/ CallMarkAsRead(Universe)
    \/ MarkAsReadResponse(Universe)
    \/ CallDeleteNotifications(Universe)
    \/ DeleteNotificationsResponse(Universe)
    \/ RealtimePayload(Universe)

Spec == InitFor(Universe) /\ [][Next]_vars

\* ------------------------------------------------------------------ claims
\* the step that has just been taken settled a call of op with a 2xx answer
Succeeded(op) ==
    /\ last'.op = op \o "Response"
    /\ ~last'.resp.rejected
    /\ last'.resp.ok

\* C1: a markAsRead(ids) that the gateway answers with 2xx keeps the length and
\* the order of the list, sets read on every row whose id is in ids and leaves
\* every other row as it was.
C1_MarkReadSetsReadInPlace ==
    [][Succeeded("markAsRead") =>
        /\ Len(notifications') = Len(notifications)
        /\ \A i \in 1..Len(notifications) :
            IF notifications[i].id \in IdSet(last'.ids)
            THEN /\ notifications'[i].read = TRUE
                 /\ notifications'[i].id = notifications[i].id
            ELSE notifications'[i] = notifications[i]]_vars

\* a list of three rows one of which was just marked as read, next to an
\* unread row the ids did not name
C1_Witness ==
    /\ last.op = "markAsReadResponse"
    /\ last.resp.ok
    /\ last.changed
    /\ Len(notifications) = 3
    /\ \E i \in 1..Len(notifications) :
        notifications[i].id \notin IdSet(last.ids) /\ ~notifications[i].read

\* C2: a deleteNotifications(ids) that the gateway answers with 2xx leaves
\* exactly the rows whose id is not in ids, in the order they had.
C2_DeleteRemovesAndKeepsOrder ==
    [][Succeeded("deleteNotifications") =>
        LET keep == {i \in 1..Len(notifications) :
                        notifications[i].id \notin IdSet(last'.ids)}
        IN  /\ Len(notifications') = Cardinality(keep)
            /\ \A i \in keep :
                notifications'[Cardinality({j \in keep : j <= i})] = notifications[i]
            /\ \A k \in 1..Len(notifications') :
                notifications'[k].id \notin IdSet(last'.ids)]_vars

\* a row was deleted from a list of three and two rows survive
C2_Witness ==
    /\ last.op = "deleteNotificationsResponse"
    /\ last.resp.ok
    /\ last.lenBefore = 3
    /\ Len(notifications) = 2

\* the step that has just been taken settled a call of op that failed: the
\* fetch was rejected, or the gateway answered outside 2xx
Failed(op) ==
    /\ last'.op = op \o "Response"
    /\ last'.resp.rejected \/ ~last'.resp.ok

\* the step that has just been taken raised one notice, of the given level
OneToast(level) ==
    /\ Len(last'.toasts) = 1
    /\ last'.toasts[1].level = level

\* C3: a markAsRead or deleteNotifications that fails, whatever the body of
\* the answer, leaves notifications, loading and error as they were, raises
\* one error notice and lets no error out.
C3_FailedMutationChangesNothing ==
    [][Failed("markAsRead") \/ Failed("deleteNotifications") =>
        /\ notifications' = notifications
        /\ loading' = loading
        /\ error' = error
        /\ OneToast("error")
        /\ ~last'.escaped]_vars

\* a markAsRead naming a row of the list got an answer outside 2xx whose body
\* is no JSON, while error held the message of an earlier failed load
C3_Witness ==
    /\ last.op = "markAsReadResponse"
    /\ ~last.resp.rejected /\ ~last.resp.ok /\ ~last.resp.parses
    /\ error # NoError
    /\ Len(notifications) = 1
    /\ ~notifications[1].read
    /\ notifications[1].id \in IdSet(last.ids)

\* C4: a load that fails leaves notifications as they were, sets error to a
\* message that is not empty, raises one error notice and lets no error out.
C4_FailedLoadKeepsItemsSetsError ==
    [][(last'.op = "loadResponse" /\ (last'.resp.rejected \/ ~last'.resp.ok)) =>
        /\ notifications' = notifications
        /\ error' \notin {NoError, Undefined, ""}
        /\ OneToast("error")
        /\ last'.toasts[1].message = error'
        /\ ~last'.escaped]_vars

\* a load failed with an empty non-JSON body while the list held a row
C4_Witness ==
    /\ last.op = "loadResponse"
    /\ ~last.resp.rejected /\ ~last.resp.ok /\ ~last.resp.parses /\ last.resp.text = ""
    /\ Len(notifications) = 1
    /\ error # NoError

\* C5: a load that the gateway answers with 2xx and an array makes
\* notifications that array, whatever the list held, and raises no notice.
C5_LoadReplacesWholesale ==
    [][(/\ last'.op = "loadResponse"
        /\ ~last'.resp.rejected /\ last'.resp.ok
        /\ last'.resp.parses /\ last'.resp.value.t = "array") =>
        /\ notifications' = last'.resp.value.data
        /\ last'.toasts = <<>>]_vars

\* a list of three rows was replaced by a list of one row
C5_Witness ==
    /\ last.op = "loadResponse"
    /\ last.resp.ok /\ last.resp.value.t = "array"
    /\ last.lenBefore = 3
    /\ Len(notifications) = 1

\* the loads in flight
LoadsInFlight == {r \in BagToSet(pending) : r.op = "load"}

\* C6: the step that completes a load, whether the gateway answered 2xx or
\* outside 2xx or the fetch was rejected, leaves loading false; and when every
\* load in flight is answered in the end, loading is false some time after
\* any load is in flight.
C6_LoadingClearedOnCompletion ==
    /\ [][last'.op = "loadResponse" => loading' = FALSE]_vars
    /\ (LoadsInFlight # {}) ~> (loading = FALSE)

\* a load that the gateway answered outside 2xx has read the body of the
\* answer and completed: error holds its message and loading is false
C6_Witness ==
    /\ last.op = "loadResponse"
    /\ ~Fetching(last.req)
    /\ ~last.resp.rejected /\ ~last.resp.ok
    /\ error # NoError
    /\ loading = FALSE
    /\ user # NoUser

\* the step that has just been taken ran loadNotifications for no user: the
\* effect or the UI with the latest render's user, the auth listener with
\* the user of its effect
LoadWithoutUser ==
    \/ last'.op \in {"effect", "loadNotifications"} /\ user = NoUser
    \/ last'.op = "authStateChange" /\ last'.outcome = "SIGNED_IN" /\ effectUser = NoUser

\* C7: the effect and loadNotifications, run without a user, empty the list
\* and clear loading, call no gateway, open no channel and raise no notice.
C7_NoIdentityClearsWithoutCalls ==
    [][LoadWithoutUser =>
        /\ notifications' = <<>>
        /\ loading' = FALSE
        /\ last'.fetches = 0
        /\ pending' = pending
        /\ last'.subscribes = 0
        /\ last'.op = "effect" => realtimeSubscription' = NoUser
        /\ last'.op # "effect" => realtimeSubscription' = realtimeSubscription
        /\ last'.toasts = <<>>]_vars

\* the effect ran after the user signed out, while the list held a row
C7_Witness ==
    /\ last.op = "effect"
    /\ user = NoUser
    /\ last.lenBefore = 1
    /\ notifications = <<>>
    /\ loading = FALSE
    /\ realtimeSubscription = NoUser

\* C8: without a user, markAsRead and deleteNotifications call no gateway,
\* raise no notice and leave notifications, loading and error as they were.
C8_NoIdentityMutationsAreNoOps ==
    [][(last'.op \in {"markAsRead", "deleteNotifications"} /\ user = NoUser) =>
        /\ last'.fetches = 0
        /\ pending' = pending
        /\ last'.toasts = <<>>
        /\ notifications' = notifications
        /\ loading' = loading
        /\ error' = error]_vars

\* deleteNotifications named the row of the list after the user signed out
C8_Witness ==
    /\ last.op = "deleteNotifications"
    /\ user = NoUser
    /\ Len(notifications) = 1
    /\ notifications[1].id \in IdSet(last.ids)

\* C9: a realtime INSERT makes the list one longer, with the new row first and
\* the rows it had after it in their order, and raises one info notice with
\* the row's message.
C9_InsertPrepends ==
    [][(last'.op = "realtime" /\ last'.outcome = "INSERT") =>
        /\ Len(notifications') = Len(notifications) + 1
        /\ notifications'[1] = last'.row
        /\ \A i \in 1..Len(notifications) : notifications'[i + 1] = notifications[i]
        /\ OneToast("info")
        /\ last'.toasts[1].message = last'.row.message]_vars

\* a row was inserted in front of two rows with another id
C9_Witness ==
    /\ last.op = "realtime"
    /\ last.outcome = "INSERT"
    /\ Len(notifications) = 3
    /\ notifications[1] = last.row
    /\ notifications[2].id # last.row.id
    /\ notifications[2] # notifications[3]

\* C10: a realtime UPDATE puts the pushed row where a row with its id was and
\* touches no other row; when no row has its id, the list stays as it was.
C10_UpdateReplacesInPlace ==
    [][(last'.op = "realtime" /\ last'.outcome = "UPDATE") =>
        /\ Len(notifications') = Len(notifications)
        /\ \A i \in 1..Len(notifications) :
            notifications'[i] =
                IF notifications[i].id = last'.row.id THEN last'.row ELSE notifications[i]
        /\ (\A i \in 1..Len(notifications) : notifications[i].id # last'.row.id)
               => notifications' = notifications]_vars

\* an update changed the second of two rows, next to a row with another id
C10_Witness ==
    /\ last.op = "realtime"
    /\ last.outcome = "UPDATE"
    /\ last.changed
    /\ Len(notifications) = 2
    /\ notifications[2] = last.row
    /\ notifications[1].id # last.row.id

\* the ids the list holds
HeldIds == {notifications[i].id : i \in 1..Len(notifications)}

\* C11: a realtime UPDATE or DELETE delivered again right after itself
\* leaves the list as the first delivery left it, and a realtime DELETE of
\* an id the list does not hold leaves the list as it was.
C11_UpdateDeleteIdempotent ==
    [][(last'.op = "realtime" /\ last'.outcome \in {"UPDATE", "DELETE"}) =>
          /\ last'.again => notifications' = notifications
          /\ (last'.outcome = "DELETE" /\ last'.row.id \notin HeldIds) =>
                notifications' = notifications]_vars

\* the same UPDATE was delivered twice in a row to a list that holds two
\* items with its id, next to an item of another id
C11_Witness ==
    /\ last.op = "realtime"
    /\ last.outcome = "UPDATE"
    /\ last.again
    /\ ~last.changed
    /\ Cardinality({i \in 1..Len(notifications) : notifications[i] = last.row}) = 2
    /\ HeldIds # {last.row.id}

\* C12: in every state unreadCount is the number of items of the list
\* whose read is false, whatever loads, mutations and realtime events made
\* the list.
C12_UnreadCountCountsUnread ==
    unreadCount = Cardinality({i \in 1..Len(notifications) : ~notifications[i].read})

\* a markAsRead has just brought the count from two to one
C12_Witness ==
    /\ last.op = "markAsReadResponse"
    /\ last.changed
    /\ Len(notifications) = 2
    /\ unreadCount = 1
    /\ notifications[1].read

\* C13: in every state the list holds no id twice, whatever loads of
\* id-unique lists, markAsRead, deleteNotifications and realtime INSERT,
\* UPDATE and DELETE events made the list.
C13_ItemsUniqueById == UniqueIds(notifications)

\* the users whose channel is open
OpenChannels == BagToSet(handles.channels)

\* C14: at most one realtime channel is open at any moment, and it is the
\* one that filters on the user the effect last ran for; when the effect
\* runs again for another user, or for none, the channel of the user before
\* is closed in that same step; every realtime event that is applied to the
\* list came through the channel of the user the effect last ran for.
C14_OneSubscriptionForBoundUser ==
    /\ [](/\ BagCardinality(handles.channels) <= 1
          /\ OpenChannels \subseteq {effectUser} \ {NoUser}
          /\ (authListener /\ effectUser # NoUser) => OpenChannels = {effectUser})
    /\ [][/\ last'.op = "effect" => OpenChannels' = {user} \ {NoUser}
          /\ last'.op = "realtime" =>
                /\ last'.req.user = effectUser
                /\ last'.row.userId = effectUser]_vars

\* the effect has run again for u2 while the list still holds a row of u1,
\* the user it ran for before: only the channel of u2 is open
C14_Witness ==
    /\ last.op = "effect"
    /\ effectUser = "u2"
    /\ user = "u2"
    /\ OpenChannels = {"u2"}
    /\ Len(notifications) = 1
    /\ notifications[1].userId = "u1"

\* C15: the auth listener and the realtime channel an effect acquires are
\* released exactly once, by the cleanup that runs when the effect runs
\* again or when the component unmounts: nothing is released that is not
\* held, what is held is what the effect that last ran acquired, and nothing
\* is held after the unmount.
C15_HandlesReleasedExactlyOnce ==
    /\ [](/\ ~handles.misreleased
          /\ handles.listeners = (IF authListener THEN 1 ELSE 0)
          /\ BagCardinality(handles.channels) =
                (IF realtimeSubscription = NoUser THEN 0 ELSE 1)
          /\ realtimeSubscription # NoUser => BagIn(realtimeSubscription, handles.channels)
          /\ ~mounted => (handles.listeners = 0 /\ BagCardinality(handles.channels) = 0))
    /\ [][/\ (last'.op = "effect" /\ authListener) =>
                /\ handles'.listeners = handles.listeners
                /\ BagCardinality(handles'.channels) =
                      (BagCardinality(handles.channels)
                         - (IF realtimeSubscription = NoUser THEN 0 ELSE 1))
                         + (IF user = NoUser THEN 0 ELSE 1)
          /\ last'.op = "unmount" =>
                /\ handles'.listeners = handles.listeners - 1
                /\ BagCardinality(handles'.channels) =
                      BagCardinality(handles.channels)
                         - (IF realtimeSubscription = NoUser THEN 0 ELSE 1)]_vars

\* the component has unmounted after its effect had run for one user and
\* then for another: the listener and the channel of the last effect are
\* released and nothing is held
C15_Witness ==
    /\ last.op = "unmount"
    /\ ~mounted
    /\ effectUser = "u2"
    /\ Len(notifications) = 1
    /\ notifications[1].userId = "u1"
    /\ handles = NoHandles

\* a load settled with a non-2xx answer
LoadAnsweredNotOk ==
    /\ last'.op = "loadResponse"
    /\ ~last'.resp.rejected
    /\ ~last'.resp.ok

\* C16 as the spec words it: when a load is answered non-2xx with a body
\* that is not JSON, the message in error is a generic prefix followed by the
\* raw body text; when the body is a JSON object, the message is details if
\* the object has one, else error.
C16_PrefixPlusRawText ==
    [][LoadAnsweredNotOk =>
          /\ ~last'.resp.parses =>
                error' \in {NonJsonMsg \o sep \o last'.resp.text : sep \in {"", " ", ": "}}
          /\ (last'.resp.parses /\ last'.resp.value.t = "object") =>
                error' = (IF last'.resp.value.details # Undefined
                          THEN last'.resp.value.details
                          ELSE last'.resp.value.error)]_vars

\* C16: when a load is answered non-2xx, error and the one error notice
\* carry the same message: under a content type that is not JSON, the raw
\* body text alone, or the generic non-JSON message when the text is empty;
\* under a JSON content type, "Erreur inconnue" when the body does not parse
\* and, when it parses to an object, details if it is a non-empty string,
\* else error if it is a non-empty string, else the generic load message.
C16_RawTextOrDetailsOrError ==
    [][LoadAnsweredNotOk =>
          /\ last'.toasts = <<Toast("error", error')>>
          /\ ~IsJsonContentType(last'.resp.contentType) =>
                error' = (IF last'.resp.text # "" THEN last'.resp.text ELSE NonJsonMsg)
          /\ (IsJsonContentType(last'.resp.contentType) /\ ~last'.resp.parses) =>
                error' = UnknownErrorMsg
          /\ (/\ IsJsonContentType(last'.resp.contentType)
              /\ last'.resp.parses
              /\ last'.resp.value.t = "object") =>
                error' = (IF last'.resp.value.details \notin {Undefined, ""}
                          THEN last'.resp.value.details
                          ELSE IF last'.resp.value.error \notin {Undefined, ""}
                          THEN last'.resp.value.error
                          ELSE LoadFallbackMsg)]_vars

\* a load was answered non-2xx with an HTML page: error is the page's text
C16_Witness ==
    /\ last.op = "loadResponse"
    /\ ~last.resp.rejected
    /\ ~last.resp.ok
    /\ last.resp.contentType = "text/html"
    /\ last.resp.text = "<html>"
    /\ error = "<html>"
    /\ last.toasts = <<Toast("error", "<html>")>>

\* C17: a load in flight is never cancelled: no change of user, effect run
\* or auth event removes it from the calls in flight, and when its answer
\* arrives after the user has changed it is applied like any other: a list
\* replaces notifications, and loading becomes false.
C17_LateLoadIsApplied ==
    [][/\ last'.op \in {"setUser", "effect", "authStateChange"} =>
            \A r \in BagToSet(pending) : CopiesIn(r, pending') >= CopiesIn(r, pending)
       /\ (last'.op = "loadResponse" /\ last'.req.user # user') =>
            /\ CopiesIn(last'.req, pending') = CopiesIn(last'.req, pending) - 1
            /\ loading' = FALSE
            /\ (/\ ~last'.resp.rejected
                /\ last'.resp.ok
                /\ last'.resp.parses
                /\ last'.resp.value.t = "array") =>
                     notifications' = last'.resp.value.data]_vars

\* the load issued for u1 was answered after the effect had run again for
\* u2: the list of u2's session holds a row of u1
C17_Witness ==
    /\ last.op = "loadResponse"
    /\ last.req.user = "u1"
    /\ last.changed
    /\ user = "u2"
    /\ effectUser = "u2"
    /\ realtimeSubscription = "u2"
    /\ ~loading
    /\ Len(notifications) = 1
    /\ notifications[1].userId = "u1"

\* the list holds an item with id x that is read, or one that is unread
HeldRead(list, x) == \E i \in 1..Len(list) : list[i].id = x /\ list[i].read
HeldUnread(list, x) == \E i \in 1..Len(list) : list[i].id = x /\ ~list[i].read

\* C18 as the spec words it: the database only ever sets read, and once
\* the list holds an item with id x as read, no step makes it hold an item
\* with id x as unread.
C18_ReadNeverReverts ==
    [][\A x \in Ids :
          HeldRead(notifications, x) => ~HeldUnread(notifications', x)]_vars

\* C18: the database only ever sets read; then no settled markAsRead and
\* no realtime UPDATE or DELETE puts an unread item into the list that was
\* not in it before, while a settled load replaces the list by the snapshot
\* it carries, be it older than the list.
C18_OnlyLoadsAndInsertsBringUnread ==
    [][/\ (\/ last'.op = "markAsReadResponse"
           \/ (last'.op = "realtime" /\ last'.outcome \in {"UPDATE", "DELETE"})) =>
             \A j \in 1..Len(notifications') :
                ~notifications'[j].read =>
                   \E i \in 1..Len(notifications) : notifications[i] = notifications'[j]
       /\ (last'.op = "loadResponse" /\ last'.outcome = "done") =>
             notifications' = last'.resp.value.data]_vars

\* the list held n1 as read, as the database does, and the answer to a
\* load issued before the database set read has put n1 back as unread
C18_Witness ==
    /\ last.op = "loadResponse"
    /\ last.outcome = "done"
    /\ last.changed
    /\ last.lenBefore = 1
    /\ last.req.seen = {}
    /\ store = {"n1"}
    /\ Len(notifications) = 1
    /\ ~notifications[1].read

\* C19: in every state in which a load is in flight, started by the
\* effect, by the SIGNED_IN auth event or by the UI, loading is true.
C19_LoadingWhileLoadInFlight == LoadsInFlight # {} => loading

\* the step that has just been taken settled a load with a list
LoadSucceeded ==
    /\ last'.op = "loadResponse"
    /\ last'.outcome = "done"

\* C20: error tells how the load that completed last ended: it is null
\* after a load that succeeded and after a load that ran without a user, and
\* it becomes non-null only in the step in which a load fails.
C20_ErrorOfLastCompletedLoad ==
    [][/\ LoadSucceeded => error' = NoError
       /\ LoadWithoutUser => error' = NoError
       /\ (error = NoError /\ error' # NoError) =>
             (last'.op = "loadResponse" /\ last'.outcome = "caught")]_vars

====
